---- MODULE Spec2Model ----
(***************************************************************************)
(* Model of stock_toolkit.py: the analysis functions (moving averages,     *)
(* RSI, normalised performance, correlation), the heatmap guard of the     *)
(* plotting module, and the orchestration in main().                       *)
(*                                                                         *)
(* A DataFrame is a record [n, cols]: n is the length of the date index    *)
(* and cols maps a column key <<ticker, field, window>> to a sequence of   *)
(* n float values (code index i is position i+1 here).  A float is a       *)
(* record: a rational [k |-> "num", n, d] in lowest terms, NaN, or a       *)
(* signed infinity, with the IEEE rules for division by zero.              *)
(***************************************************************************)
EXTENDS Integers, Sequences, FiniteSets, TLC

\* ------------------------------------------------------------- bounds
MaxLen == 3
MaxPrice == 2

\* --------------------------------------------------- float arithmetic
Abs(x) == IF x < 0 THEN -x ELSE x

Sgn(x) == IF x < 0 THEN -1 ELSE IF x > 0 THEN 1 ELSE 0

RECURSIVE GCD(_, _)
GCD(a, b) == IF b = 0 THEN a ELSE GCD(b, a % b)

NaN == [k |-> "nan", n |-> 0, d |-> 1]

Inf(s) == [k |-> "inf", n |-> s, d |-> 1]

\* the rational n/d (d # 0) in lowest terms with a positive denominator
Rat(n, d) ==
    LET g == GCD(Abs(n), Abs(d))
    IN  [k |-> "num", n |-> Sgn(d) * (n \div g), d |-> Abs(d) \div g]

Num(i) == [k |-> "num", n |-> i, d |-> 1]

IsNaN(x) == x.k = "nan"

IsNum(x) == x.k = "num"

FNeg(x) == IF x.k = "nan" THEN NaN ELSE [x EXCEPT !.n = -x.n]

FAdd(x, y) ==
    CASE x.k = "nan" \/ y.k = "nan" -> NaN
      [] x.k = "inf" /\ y.k = "inf" -> IF x.n = y.n THEN x ELSE NaN
      [] x.k = "inf" -> x
      [] y.k = "inf" -> y
      [] OTHER -> Rat(x.n * y.d + y.n * x.d, x.d * y.d)

FSub(x, y) == FAdd(x, FNeg(y))

FMul(x, y) ==
    CASE x.k = "nan" \/ y.k = "nan" -> NaN
      [] x.k = "inf" \/ y.k = "inf" ->
            IF x.n = 0 \/ y.n = 0 THEN NaN ELSE Inf(Sgn(x.n) * Sgn(y.n))
      [] OTHER -> Rat(x.n * y.n, x.d * y.d)

\* IEEE division: x/0 is an infinity, 0/0 and inf/inf are NaN, x/inf is 0
FDiv(x, y) ==
    CASE x.k = "nan" \/ y.k = "nan" -> NaN
      [] x.k = "inf" /\ y.k = "inf" -> NaN
      [] x.k = "inf" -> Inf(IF y.n < 0 THEN -x.n ELSE x.n)
      [] y.k = "inf" -> Num(0)
      [] y.n = 0 -> IF x.n = 0 THEN NaN ELSE Inf(Sgn(x.n))
      [] OTHER -> Rat(x.n * y.d, x.d * y.n)

\* x > 0 as a float comparison: False for NaN
FPos(x) == x.k # "nan" /\ x.n > 0

FNegative(x) == x.k # "nan" /\ x.n < 0

\* ------------------------------------------------------------ columns
Col(ticker, field) == <<ticker, field, 0>>

SMACol(ticker, window) == <<ticker, "SMA", window>>

HasCol(data, c) == c \in DOMAIN data.cols

\* data[c] = series: the frame with the column added or overwritten
SetCol(data, c, series) ==
    [data EXCEPT !.cols =
        [x \in DOMAIN data.cols \cup {c} |->
            IF x = c THEN series ELSE data.cols[x]]]

\* DataFrame.empty: an axis of length 0
Empty(data) == data.n = 0 \/ DOMAIN data.cols = {}

EmptyFrame == [n |-> 0, cols |-> [c \in {} |-> <<>>]]

\* the tickers on level 0 of the columns
TickersOf(data) == {c[1] : c \in DOMAIN data.cols}

\* ----------------------------------------------------- pandas kernels
\* Series.diff(1): NaN at the first position, then s[i] - s[i-1]
Diff(s) == [i \in 1..Len(s) |-> IF i = 1 THEN NaN ELSE FSub(s[i], s[i - 1])]

\* Series.rolling(window).mean(), min_periods = window: one pass over the
\* series that keeps the sum and the count of the non-NaN values among the
\* trailing window values, adding the entering value and removing the
\* leaving one; a position with fewer than window observations is NaN
\* the rolling pass with the leaving value counted out but never subtracted
RECURSIVE RollFromNoRemove(_, _, _, _, _, _)
RollFromNoRemove(s, window, i, sum, nobs, out) ==
    IF i > Len(s) THEN out
    ELSE LET enters == ~IsNaN(s[i])
             leaves == i > window /\ ~IsNaN(s[i - window])
             sum1 == IF enters THEN FAdd(sum, s[i]) ELSE sum
             nobs2 == nobs + (IF enters THEN 1 ELSE 0)
                           - (IF leaves THEN 1 ELSE 0)
             mean == IF window >= 1 /\ nobs2 >= window
                     THEN FDiv(sum1, Num(nobs2)) ELSE NaN
         IN  RollFromNoRemove(s, window, i + 1, sum1, nobs2, Append(out, mean))

RECURSIVE RollFrom(_, _, _, _, _, _)
RollFrom(s, window, i, sum, nobs, out) ==
    IF i > Len(s) THEN out
    ELSE LET enters == ~IsNaN(s[i])
             leaves == i > window /\ ~IsNaN(s[i - window])
             sum1 == IF enters THEN FAdd(sum, s[i]) ELSE sum
             sum2 == IF leaves THEN FSub(sum1, s[i - window]) ELSE sum1
             nobs2 == nobs + (IF enters THEN 1 ELSE 0)
                           - (IF leaves THEN 1 ELSE 0)
             mean == IF window >= 1 /\ nobs2 >= window
                     THEN FDiv(sum2, Num(nobs2)) ELSE NaN
         IN  RollFrom(s, window, i + 1, sum2, nobs2, Append(out, mean))

RollingMean(s, window) == RollFrom(s, window, 1, Num(0), 0, <<>>)

\* ----------------------------------------------------------- analysis
\* What a call hands back: the frame or matrix returned (value), the
\* exception that ended it (raised, "" for a normal return; value is then
\* the frame as the call left it), and whether the object returned is the
\* very object passed in (same).
Returned(value, same) == [value |-> value, raised |-> "", same |-> same]

Raised(data, exc) == [value |-> data, raised |-> exc, same |-> FALSE]

\* calculate_moving_averages, its loop from the j-th window on: each pass
\* stores a column into the frame passed in, and the frame is returned
RECURSIVE MovingAveragesFrom(_, _, _, _)
MovingAveragesFrom(data, ticker, windows, j) ==
    IF j > Len(windows) THEN Returned(data, TRUE)
    ELSE IF ~HasCol(data, Col(ticker, "Close")) THEN Raised(data, "KeyError")
    ELSE IF windows[j] < 0 THEN Raised(data, "ValueError")
    ELSE MovingAveragesFrom(
            SetCol(data, SMACol(ticker, windows[j]),
                   RollingMean(data.cols[Col(ticker, "Close")], windows[j])),
            ticker, windows, j + 1)

calculate_moving_averages(data, ticker, windows) ==
    MovingAveragesFrom(data, ticker, windows, 1)

\* delta.where(delta > 0, 0): NaN > 0 is False, so the NaN of diff becomes 0
Gain(delta) ==
    [i \in 1..Len(delta) |-> IF FPos(delta[i]) THEN delta[i] ELSE Num(0)]

\* -delta.where(delta < 0, 0)
Loss(delta) ==
    [i \in 1..Len(delta) |->
        FNeg(IF FNegative(delta[i]) THEN delta[i] ELSE Num(0))]

\* the RSI with the ratio taken as loss / gain
RSISeriesInverted(close, window) ==
    LET delta == Diff(close)
        gain == RollingMean(Gain(delta), window)
        loss == RollingMean(Loss(delta), window)
    IN  [i \in 1..Len(close) |->
            FSub(Num(100),
                 FDiv(Num(100), FAdd(Num(1), FDiv(loss[i], gain[i]))))]

\* rsi = 100 - (100 / (1 + rs)) with rs = gain / loss, element by element
RSISeries(close, window) ==
    LET delta == Diff(close)
        gain == RollingMean(Gain(delta), window)
        loss == RollingMean(Loss(delta), window)
    IN  [i \in 1..Len(close) |->
            FSub(Num(100),
                 FDiv(Num(100), FAdd(Num(1), FDiv(gain[i], loss[i]))))]

\* calculate_rsi storing its series under the Close key
calculate_rsi_OverClose(data, ticker, window) ==
    IF ~HasCol(data, Col(ticker, "Close")) THEN Raised(data, "KeyError")
    ELSE IF window < 0 THEN Raised(data, "ValueError")
    ELSE Returned(SetCol(data, Col(ticker, "Close"),
                         RSISeries(data.cols[Col(ticker, "Close")], window)),
                  TRUE)

\* calculate_rsi: the RSI column is stored in the frame passed in, which is
\* what it returns
calculate_rsi(data, ticker, window) ==
    IF ~HasCol(data, Col(ticker, "Close")) THEN Raised(data, "KeyError")
    ELSE IF window < 0 THEN Raised(data, "ValueError")
    ELSE Returned(SetCol(data, Col(ticker, "RSI"),
                         RSISeries(data.cols[Col(ticker, "Close")], window)),
                  TRUE)

\* data.xs(field, level=1, axis=1): the columns of that field, by ticker
Xs(data, field) ==
    LET tks == {t \in TickersOf(data) : HasCol(data, Col(t, field))}
    IN  [t \in tks |-> data.cols[Col(t, field)]]

\* the normalisation by the last row, iloc[-1], in place of the first
calculate_performance_LastRow(data) ==
    LET adj_close == Xs(data, "Adj Close")
    IN  IF DOMAIN adj_close = {} THEN Raised(data, "KeyError")
        ELSE IF data.n = 0 THEN Raised(data, "IndexError")
        ELSE Returned(
                [t \in DOMAIN adj_close |->
                    [i \in 1..data.n |->
                        FMul(FDiv(adj_close[t][i], adj_close[t][data.n]),
                             Num(100))]],
                FALSE)

\* adj_close / adj_close.iloc[0] * 100: a new frame, one column per ticker;
\* xs fails on a frame without that field, iloc[0] on one without dates
calculate_performance(data) ==
    LET adj_close == Xs(data, "Adj Close")
    IN  IF DOMAIN adj_close = {} THEN Raised(data, "KeyError")
        ELSE IF data.n = 0 THEN Raised(data, "IndexError")
        ELSE Returned(
                [t \in DOMAIN adj_close |->
                    [i \in 1..data.n |->
                        FMul(FDiv(adj_close[t][i], adj_close[t][1]),
                             Num(100))]],
                FALSE)

RECURSIVE SumTo(_, _)
SumTo(s, i) == IF i = 0 THEN Num(0) ELSE FAdd(SumTo(s, i - 1), s[i])

Prod(x, y) == [i \in 1..Len(x) |-> FMul(x[i], y[i])]

\* Pearson coefficient of two columns: cov / sqrt(ssx * ssy), NaN when a
\* variance is zero or there is no observation.  The value is kept as the
\* signed square [k |-> "root", n, d], standing for sgn(n) * sqrt(|n| / d),
\* so that 1.0 is [k |-> "root", n |-> 1, d |-> 1].
Pearson(x, y) ==
    LET nobs == Num(Len(x))
        cov == FSub(FMul(nobs, SumTo(Prod(x, y), Len(x))),
                    FMul(SumTo(x, Len(x)), SumTo(y, Len(y))))
        ssx == FSub(FMul(nobs, SumTo(Prod(x, x), Len(x))),
                    FMul(SumTo(x, Len(x)), SumTo(x, Len(x))))
        ssy == FSub(FMul(nobs, SumTo(Prod(y, y), Len(y))),
                    FMul(SumTo(y, Len(y)), SumTo(y, Len(y))))
        den == FMul(ssx, ssy)
        sq == FDiv(FMul(cov, cov), den)
    IN  IF Len(x) = 0 \/ den.n = 0 THEN NaN
        ELSE [k |-> "root", n |-> Sgn(cov.n) * sq.n, d |-> sq.d]

One == [k |-> "root", n |-> 1, d |-> 1]

\* close_prices.corr(): a new square frame over the tickers
calculate_correlation(data) ==
    LET close_prices == Xs(data, "Close")
        tks == DOMAIN close_prices
    IN  IF tks = {} THEN Raised(data, "KeyError")
        ELSE Returned(
                [p \in tks \X tks |-> Pearson(close_prices[p[1]], close_prices[p[2]])],
                FALSE)

\* correlation_data.shape[0]: the number of rows of the matrix
Shape0(correlation_data) == Cardinality({p[1] : p \in DOMAIN correlation_data})

\* the heatmap guard with the threshold off by one
plot_correlation_heatmap_Below1(correlation_data) ==
    IF Shape0(correlation_data) < 1 THEN "skipped" ELSE "heatmap"

\* plot_correlation_heatmap: the warning and early return below 2 tickers,
\* the heatmap otherwise
plot_correlation_heatmap(correlation_data) ==
    IF Shape0(correlation_data) < 2 THEN "skipped" ELSE "heatmap"

\* -------------------------------------------------------------- state
VARIABLES
    stock_data,    \* the price panel: what the caller holds, or what main fetched
    before,        \* the panel as it was before any analysis call
    ret,           \* the last analysis call: operation, arguments, outcome
    calls,         \* the analysis functions called so far
    pc,            \* main's position
    tickers,       \* main: the requested tickers, in order
    analysis,      \* main: --analysis
    ma_windows,    \* main: --ma
    data_with_ma,  \* main: the working copy the indicators are stored in
    looked,        \* main: the tickers looked up in stock_data
    shown          \* main: what the plotting module was asked to draw

vars == <<stock_data, before, ret, calls, pc, tickers, analysis, ma_windows,
          data_with_ma, looked, shown>>

mainVars == <<pc, tickers, analysis, ma_windows, data_with_ma, looked, shown>>

Tickers == {"A", "B"}

\* window arguments: negative, zero, within the series, longer than it
Windows == -1..(MaxLen + 1)

\* window lists as --ma gives them: one window, or a window and the next
WindowLists ==
    {<<w>> : w \in Windows} \cup {<<w, w + 1>> : w \in Windows \ {MaxLen + 1}}

\* window: int = 14, the default main relies on
RSIWindow == 14

\* the price panels over the tickers tks with n dates whose Close prices are
\* drawn from closeVals and whose adjusted closes from adjVals
Panels(tks, n, closeVals, adjVals) ==
    {[n |-> n,
      cols |-> [c \in {Col(t, f) : t \in tks, f \in {"Close", "Adj Close"}} |->
                    IF c[2] = "Close" THEN close[c[1]] ELSE adj[c[1]]]] :
        close \in [tks -> [1..n -> {Num(v) : v \in closeVals}]],
        adj \in [tks -> [1..n -> {Num(v) : v \in adjVals}]]}

NoCall ==
    [op |-> "none", ticker |-> "", windows |-> <<>>, value |-> EmptyFrame,
     raised |-> "", same |-> FALSE]

\* value is the object returned when it is a new one; a call that returned
\* the frame it was given (same), or raised, hands back no other object
Outcome(op, ticker, windows, r) ==
    [op |-> op, ticker |-> ticker, windows |-> windows,
     value |-> IF r.same \/ r.raised # "" THEN EmptyFrame ELSE r.value,
     raised |-> r.raised, same |-> r.same]

\* ------------------------------------- the analysis module, called directly
\* A caller holds one single-ticker panel and calls the analysis functions
\* on it, each at most once, in any order.
Init ==
    /\ \E n \in 0..MaxLen :
          stock_data \in Panels({"A"}, n, 1..MaxPrice, {1})
    /\ before = stock_data
    /\ ret = NoCall
    /\ calls = {}
    /\ pc = "caller"
    /\ tickers = <<"A">>
    /\ analysis = "none"
    /\ ma_windows = <<>>
    /\ data_with_ma = EmptyFrame
    /\ looked = {}
    /\ shown = <<>>

\* calculate_moving_averages(stock_data, "A", windows): the columns are
\* stored in the caller's own frame, also those stored before an exception
CallMovingAverages ==
    /\ pc = "caller" /\ "sma" \notin calls
    /\ \E windows \in WindowLists :
          LET r == calculate_moving_averages(stock_data, "A", windows)
          IN  /\ stock_data' = r.value
              /\ ret' = Outcome("sma", "A", windows, r)
    /\ calls' = calls \cup {"sma"}
    /\ UNCHANGED <<before, mainVars>>

CallRSI ==
    /\ pc = "caller" /\ "rsi" \notin calls
    /\ \E window \in Windows :
          LET r == calculate_rsi(stock_data, "A", window)
          IN  /\ stock_data' = r.value
              /\ ret' = Outcome("rsi", "A", <<window>>, r)
    /\ calls' = calls \cup {"rsi"}
    /\ UNCHANGED <<before, mainVars>>

CallPerformance ==
    /\ pc = "caller" /\ "perf" \notin calls
    /\ ret' = Outcome("perf", "", <<>>, calculate_performance(stock_data))
    /\ calls' = calls \cup {"perf"}
    /\ UNCHANGED <<stock_data, before, mainVars>>

CallCorrelation ==
    /\ pc = "caller" /\ "corr" \notin calls
    /\ ret' = Outcome("corr", "", <<>>, calculate_correlation(stock_data))
    /\ calls' = calls \cup {"corr"}
    /\ UNCHANGED <<stock_data, before, mainVars>>

Next ==
    \/ CallMovingAverages
    \/ CallRSI
    \/ CallPerformance
    \/ CallCorrelation

Spec == Init /\ [][Next]_vars

\* --------------------------------- the cross-sectional functions, called directly
\* A caller holds a panel of zero, one or two tickers.  One field at a time
\* ranges over every price series while the other holds the price 1.
InitCross ==
    /\ \E tks \in SUBSET Tickers, n \in 0..MaxLen :
          stock_data \in Panels(tks, n, 1..MaxPrice, {1})
                         \cup Panels(tks, n, {1}, 1..MaxPrice)
    /\ before = stock_data
    /\ ret = NoCall
    /\ calls = {}
    /\ pc = "caller"
    /\ tickers = <<>>
    /\ analysis = "none"
    /\ ma_windows = <<>>
    /\ data_with_ma = EmptyFrame
    /\ looked = {}
    /\ shown = <<>>

NextCross ==
    \/ CallPerformance
    \/ CallCorrelation

SpecCross == InitCross /\ [][NextCross]_vars

\* ---------------------------------------------------------------- main
TickerLists == {<<a>> : a \in Tickers} \cup {<<a, b>> : a, b \in Tickers}

Range(seq) == {seq[i] : i \in 1..Len(seq)}

\* fetch_stock_data: what it can return for the requested tickers.  The
\* tickers without data are dropped (dropna on all-NaN columns); no data at
\* all, or an exception, gives the empty frame.
fetch_stock_data(requested) ==
    {EmptyFrame} \cup
    UNION {Panels(got, n, {1, MaxPrice}, {1}) :
              got \in (SUBSET Range(requested)) \ {{}}, n \in 1..MaxLen}

InitMain ==
    /\ tickers \in TickerLists
    /\ analysis \in {"full", "compare", "corr"}
    /\ ma_windows \in WindowLists
    /\ pc = "start"
    /\ stock_data = EmptyFrame
    /\ before = EmptyFrame
    /\ ret = NoCall
    /\ calls = {}
    /\ data_with_ma = EmptyFrame
    /\ looked = {}
    /\ shown = <<>>

\* stock_data = fetch_stock_data(tickers, start, end)
Fetch ==
    /\ pc = "start"
    /\ stock_data' \in fetch_stock_data(tickers)
    /\ before' = stock_data'
    /\ pc' = "fetched"
    /\ UNCHANGED <<ret, calls, tickers, analysis, ma_windows, data_with_ma,
                   looked, shown>>

\* if stock_data.empty: "Analysis Aborted"
Abort ==
    /\ pc = "fetched"
    /\ Empty(stock_data)
    /\ pc' = "aborted"
    /\ UNCHANGED <<stock_data, before, ret, calls, tickers, analysis,
                   ma_windows, data_with_ma, looked, shown>>

\* 'full' with several tickers: the loop's first pass.  stock_data[ticker]
\* is looked up for the requested ticker, a KeyError when the fetch dropped
\* it; what it yields is a DataFrame, which has no to_frame.
FullEachTicker ==
    /\ pc = "fetched"
    /\ ~Empty(stock_data)
    /\ analysis = "full"
    /\ Len(tickers) > 1
    /\ LET ticker == tickers[1]
       IN  /\ looked' = looked \cup {ticker}
           /\ ret' = IF ticker \in TickersOf(stock_data)
                     THEN Outcome("to_frame", ticker, <<>>,
                                  Raised(stock_data, "AttributeError"))
                     ELSE Outcome("lookup", ticker, <<>>,
                                  Raised(stock_data, "KeyError"))
    /\ pc' = "crashed"
    /\ UNCHANGED <<stock_data, before, calls, tickers, analysis, ma_windows,
                   data_with_ma, shown>>

\* 'full' with one ticker: calculate_moving_averages(stock_data.copy(), ...)
FullMovingAverages ==
    /\ pc = "fetched"
    /\ ~Empty(stock_data)
    /\ analysis = "full"
    /\ Len(tickers) = 1
    /\ LET r == calculate_moving_averages(stock_data, tickers[1], ma_windows)
       IN  /\ data_with_ma' = r.value
           /\ ret' = Outcome("sma", tickers[1], ma_windows, r)
           /\ pc' = IF r.raised = "" THEN "full_rsi" ELSE "crashed"
    /\ UNCHANGED <<stock_data, before, calls, tickers, analysis, ma_windows,
                   looked, shown>>

\* data_with_rsi = calculate_rsi(data_with_ma, ticker)
FullRSI ==
    /\ pc = "full_rsi"
    /\ LET r == calculate_rsi(data_with_ma, tickers[1], RSIWindow)
       IN  /\ data_with_ma' = r.value
           /\ ret' = Outcome("rsi", tickers[1], <<RSIWindow>>, r)
           /\ pc' = IF r.raised = "" THEN "full_plot" ELSE "crashed"
    /\ UNCHANGED <<stock_data, before, calls, tickers, analysis, ma_windows,
                   looked, shown>>

\* plot_full_analysis(data_with_rsi, ticker, ma_windows), "Analysis Complete"
FullPlot ==
    /\ pc = "full_plot"
    /\ shown' = Append(shown, "full")
    /\ pc' = "done"
    /\ UNCHANGED <<stock_data, before, ret, calls, tickers, analysis,
                   ma_windows, data_with_ma, looked>>

\* performance_data = calculate_performance(stock_data)
Compare ==
    /\ pc = "fetched"
    /\ ~Empty(stock_data)
    /\ analysis = "compare"
    /\ LET r == calculate_performance(stock_data)
       IN  /\ ret' = Outcome("perf", "", <<>>, r)
           /\ pc' = IF r.raised = "" THEN "compare_plot" ELSE "crashed"
    /\ UNCHANGED <<stock_data, before, calls, tickers, analysis, ma_windows,
                   data_with_ma, looked, shown>>

\* plot_performance_comparison(performance_data), "Analysis Complete"
ComparePlot ==
    /\ pc = "compare_plot"
    /\ shown' = Append(shown, "comparison")
    /\ pc' = "done"
    /\ UNCHANGED <<stock_data, before, ret, calls, tickers, analysis,
                   ma_windows, data_with_ma, looked>>

\* correlation_data = calculate_correlation(stock_data)
Corr ==
    /\ pc = "fetched"
    /\ ~Empty(stock_data)
    /\ analysis = "corr"
    /\ LET r == calculate_correlation(stock_data)
       IN  /\ ret' = Outcome("corr", "", <<>>, r)
           /\ pc' = IF r.raised = "" THEN "corr_plot" ELSE "crashed"
    /\ UNCHANGED <<stock_data, before, calls, tickers, analysis, ma_windows,
                   data_with_ma, looked, shown>>

\* plot_correlation_heatmap(correlation_data), "Analysis Complete"
CorrPlot ==
    /\ pc = "corr_plot"
    /\ shown' = Append(shown, plot_correlation_heatmap(ret.value))
    /\ pc' = "done"
    /\ UNCHANGED <<stock_data, before, ret, calls, tickers, analysis,
                   ma_windows, data_with_ma, looked>>

NextMain ==
    \/ Fetch
    \/ Abort
    \/ FullEachTicker
    \/ FullMovingAverages
    \/ FullRSI
    \/ FullPlot
    \/ Compare
    \/ ComparePlot
    \/ Corr
    \/ CorrPlot

SpecMain == InitMain /\ [][NextMain]_vars

\* ---------------------------------------------------------- properties
\* the single-ticker caller's input series and its length
Close == before.cols[Col("A", "Close")]

N == before.n

\* the sum of the prices close[lo..hi]
RECURSIVE SumRange(_, _, _)
SumRange(close, lo, hi) ==
    IF lo > hi THEN 0 ELSE close[lo].n + SumRange(close, lo + 1, hi)

Flat(close) == \A i \in 1..Len(close) : close[i] = close[1]

StrictlyIncreasing(close) ==
    \A i \in 2..Len(close) : close[i].n > close[i - 1].n

RSIReturned == ret.op = "rsi" /\ ret.raised = ""

RSIWindowArg == ret.windows[1]

RSIColumn == stock_data.cols[Col("A", "RSI")]

\* C1: for 1 <= w <= n the SMA_w column has the length of the close series,
\* is undefined at every index below w-1 (position < w) and from there on
\* equals the arithmetic mean of the w closes ending at that index; for
\* w = 1 it is the close series itself.
C1_SmaIsTrailingMean ==
    \A c \in DOMAIN stock_data.cols :
        (c[2] = "SMA" /\ 1 <= c[3] /\ c[3] <= N) =>
            LET w == c[3]
                sma == stock_data.cols[c]
            IN  /\ Len(sma) = N
                /\ \A i \in 1..N :
                      IF i < w THEN IsNaN(sma[i])
                      ELSE /\ IsNum(sma[i])
                           /\ sma[i].n * w = sma[i].d * SumRange(Close, i - w + 1, i)
                /\ w = 1 => sma = Close

\* a moving average of a window inside the series has been computed, over
\* closes that are not all equal
C1_Witness ==
    /\ ret.op = "sma" /\ ret.raised = ""
    /\ N = MaxLen /\ ~Flat(Close)
    /\ \E i \in 1..Len(ret.windows) :
          /\ 2 <= ret.windows[i] /\ ret.windows[i] < N
          /\ HasCol(stock_data, SMACol("A", ret.windows[i]))

\* C2: on a flat close series compute_rsi yields exactly 50 at every index
\* i >= w (position > w), where the window holds w deltas.
C2_FlatRsiIs50 ==
    (RSIReturned /\ Flat(Close) /\ 1 <= RSIWindowArg /\ RSIWindowArg <= N) =>
        \A i \in 1..N : i > RSIWindowArg => RSIColumn[i] = Num(50)

\* C3: on a strictly increasing close series compute_rsi yields exactly 100
\* at every index i >= w (position > w), where the window holds w deltas.
C3_RisingRsiIs100 ==
    (RSIReturned /\ StrictlyIncreasing(Close)
        /\ 1 <= RSIWindowArg /\ RSIWindowArg <= N) =>
        \A i \in 1..N : i > RSIWindowArg => RSIColumn[i] = Num(100)

\* the RSI of a rising series of at least two closes, with a filled window
C3_Witness ==
    /\ RSIReturned /\ StrictlyIncreasing(Close)
    /\ 1 <= RSIWindowArg /\ RSIWindowArg < N
    /\ RSIColumn[N] = Num(100)

\* C7: compute_sma and compute_rsi given a window below 1 or above the
\* length of the close series fail and return no indicator series.
C7_InvalidWindowFails ==
    (ret.op \in {"sma", "rsi"}
        /\ \E i \in 1..Len(ret.windows) :
              ret.windows[i] < 1 \/ ret.windows[i] > N) =>
        ret.raised # ""

\* C9: compute_rsi with window w is undefined at every index i < w, where
\* fewer than w deltas exist (the first delta is at index 1, and the
\* missing one at index 0 is no zero gain or loss).
C9_RsiUndefinedBelowW ==
    (RSIReturned /\ 1 <= RSIWindowArg /\ RSIWindowArg <= N) =>
        \A i \in 1..N : i - 1 < RSIWindowArg => IsNaN(RSIColumn[i])

PanelTickers == TickersOf(before)

AdjClose(t) == before.cols[Col(t, "Adj Close")]

\* C5: for a panel of at least 2 tickers (here with at least 2 dates, so
\* that a coefficient exists) compute_correlation returns a square matrix
\* over the panel's tickers, symmetric, with every diagonal entry exactly
\* 1.0, and with entry 1.0 for two identical close series.
C5_CorrelationSymmetricUnitDiagonal ==
    (ret.op = "corr" /\ Cardinality(PanelTickers) >= 2 /\ N >= 2) =>
        /\ ret.raised = ""
        /\ DOMAIN ret.value = PanelTickers \X PanelTickers
        /\ \A a, b \in PanelTickers :
              /\ ret.value[<<a, b>>] = ret.value[<<b, a>>]
              /\ a = b => ret.value[<<a, b>>] = One
              /\ before.cols[Col(a, "Close")] = before.cols[Col(b, "Close")]
                    => ret.value[<<a, b>>] = One

\* C6: on a panel with dates normalize_performance returns, for every
\* ticker, a series of the panel's length with value
\* adjusted_close[i] / adjusted_close[0] * 100 at each index, so exactly 100
\* at the first date; on a panel without dates it fails.
C6_PerformanceNormalisedTo100 ==
    ret.op = "perf" =>
        IF N = 0 THEN ret.raised # ""
        ELSE PanelTickers # {} =>
                /\ ret.raised = ""
                /\ DOMAIN ret.value = PanelTickers
                /\ \A t \in PanelTickers :
                      /\ Len(ret.value[t]) = N
                      /\ ret.value[t][1] = Num(100)
                      /\ \A i \in 1..N :
                            /\ IsNum(ret.value[t][i])
                            /\ ret.value[t][i].n * AdjClose(t)[1].n
                                 = ret.value[t][i].d * AdjClose(t)[i].n * 100

\* the performance of two tickers that start at different prices and move
C6_Witness ==
    /\ ret.op = "perf" /\ ret.raised = ""
    /\ PanelTickers = Tickers /\ N = MaxLen
    /\ AdjClose("A")[1] # AdjClose("B")[1]
    /\ ~Flat(AdjClose("A")) /\ ~Flat(AdjClose("B"))
    /\ ret.value["B"][N] # Num(100)

C10_OnlyFetchedTickersLookedUp ==
    analysis = "full" => looked \subseteq TickersOf(stock_data)

====
